---------------------------- MODULE Spec2Model ----------------------------
(***************************************************************************)
(* Model of the planning core of src/app.py: get_best_layer_pattern (the   *)
(* layer pattern selector) and calculate_pallet_plan (queue construction   *)
(* followed by greedy bin-fitting under a height limit).                   *)
(*                                                                         *)
(* Both functions are pure; each is modelled as one action that applies    *)
(* the function to inputs drawn by Init.  The ordered dict passed to       *)
(* calculate_pallet_plan is a sequence of rows with pairwise distinct      *)
(* names (dict iteration order = insertion order).  The 'Color' field is   *)
(* copied through uninterpreted by the code and is left out.               *)
(***************************************************************************)
EXTENDS Integers, Sequences, FiniteSets

VARIABLES
    PALLET_W,          \* module global read by calculate_pallet_plan
    PALLET_D,          \* module global read by calculate_pallet_plan
    input_data_dict,   \* argument: ordered rows [name, L, W, H, QTY]
    limit_h,           \* argument
    pallet_h,          \* argument
    pc,                \* "call" before the function ran, "done" after it returned
    outcome,           \* "none" | "returned" | "ConfigurationError"
    all_layers_queue,  \* local of calculate_pallet_plan, kept for inspection
    pallets,           \* first component of the return value
    item_specs,        \* second component of the return value
    pat_pc,            \* "idle" | "call" | "done" for get_best_layer_pattern
    pat_args,          \* <<p_w, p_d, b_l, b_w>>
    pat_result         \* the returned pattern dict

vars == <<PALLET_W, PALLET_D, input_data_dict, limit_h, pallet_h, pc, outcome,
          all_layers_queue, pallets, item_specs, pat_pc, pat_args, pat_result>>

----------------------------------------------------------------------------
(* Bounds of the explored inputs *)

MaxItems == 2
MaxQty == 3
MaxLimit == 4
MaxPatDim == 4

\* Item names by position in the dict.
NameList == <<"Item-A", "Item-B", "Item-C", "Item-D">>

\* Item heights (column H, min_value = 1).
Heights == {1, 3}

\* Pallet base heights.
BaseHeights == {1, 3}

\* Pallet footprints <<PALLET_W, PALLET_D>> and box footprints <<L, W>>.
\* Together they give 0, 1, 2 and 4 boxes per layer, rotated and unrotated.
PalletFootprints == {<<2, 2>>, <<2, 1>>}
BoxFootprints == {<<1, 1>>, <<1, 2>>, <<3, 1>>}

\* Dimensions for get_best_layer_pattern: small ones plus the defaults of
\* the application (pallet 1100, boxes 336x336 and 503x363).
PatDims == (1..MaxPatDim) \cup {336, 363, 503, 1100}

----------------------------------------------------------------------------
(* Helpers *)

RECURSIVE SumSeq(_)
SumSeq(s) == IF s = <<>> THEN 0 ELSE Head(s) + SumSeq(Tail(s))

RECURSIVE Flatten(_)
Flatten(ss) == IF ss = <<>> THEN <<>> ELSE Head(ss) \o Flatten(Tail(ss))

Rows ==
    { [name |-> "", L |-> fp[1], W |-> fp[2], H |-> h, QTY |-> q] :
        fp \in BoxFootprints, h \in Heights, q \in 0..MaxQty }

\* All dicts with n rows; row i is keyed NameList[i].
RECURSIVE Dicts(_)
Dicts(n) ==
    IF n = 0 THEN {<<>>}
    ELSE { Append(d, [r EXCEPT !.name = NameList[n]]) : d \in Dicts(n - 1), r \in Rows }

----------------------------------------------------------------------------
(* get_best_layer_pattern *)

get_best_layer_pattern_strict(p_w, p_d, b_l, b_w) ==
    LET cols1 == p_w \div b_l
        rows1 == p_d \div b_w
        count1 == cols1 * rows1
        cols2 == p_w \div b_w
        rows2 == p_d \div b_l
        count2 == cols2 * rows2
    IN  IF count1 > count2
        THEN [count |-> count1, cols |-> cols1, rows |-> rows1,
              box_w_view |-> b_l, box_d_view |-> b_w, rotated |-> FALSE]
        ELSE [count |-> count2, cols |-> cols2, rows |-> rows2,
              box_w_view |-> b_w, box_d_view |-> b_l, rotated |-> TRUE]

get_best_layer_pattern(p_w, p_d, b_l, b_w) ==
    LET cols1 == p_w \div b_l
        rows1 == p_d \div b_w
        count1 == cols1 * rows1
        cols2 == p_w \div b_w
        rows2 == p_d \div b_l
        count2 == cols2 * rows2
    IN  IF count1 >= count2
        THEN [count |-> count1, cols |-> cols1, rows |-> rows1,
              box_w_view |-> b_l, box_d_view |-> b_w, rotated |-> FALSE]
        ELSE [count |-> count2, cols |-> cols2, rows |-> rows2,
              box_w_view |-> b_w, box_d_view |-> b_l, rotated |-> TRUE]

----------------------------------------------------------------------------
(* calculate_pallet_plan, first loop: queue construction *)

SkipItem_zero_qty_kept(total_qty, per_layer) ==
    total_qty < 0 \/ per_layer = 0

\* The two 'continue' statements.
SkipItem(total_qty, per_layer) ==
    total_qty <= 0 \/ per_layer = 0

ItemLayers_full_rem(name, total_qty, per_layer) ==
    LET full_layers == total_qty \div per_layer
        remainder == total_qty % per_layer
    IN  [k \in 1..full_layers |-> [name |-> name, type |-> "full", count |-> per_layer]]
        \o (IF remainder > 0
            THEN <<[name |-> name, type |-> "rem", count |-> per_layer]>>
            ELSE <<>>)

ItemLayers_always_rem(name, total_qty, per_layer) ==
    LET full_layers == total_qty \div per_layer
        remainder == total_qty % per_layer
    IN  [k \in 1..full_layers |-> [name |-> name, type |-> "full", count |-> per_layer]]
        \o (IF remainder >= 0
            THEN <<[name |-> name, type |-> "rem", count |-> remainder]>>
            ELSE <<>>)

\* The layers one item appends to all_layers_queue.
ItemLayers(name, total_qty, per_layer) ==
    LET full_layers == total_qty \div per_layer
        remainder == total_qty % per_layer
    IN  [k \in 1..full_layers |-> [name |-> name, type |-> "full", count |-> per_layer]]
        \o (IF remainder > 0
            THEN <<[name |-> name, type |-> "rem", count |-> remainder]>>
            ELSE <<>>)

\* item_specs[name] = {...}
PutSpec(specs, name, data, pattern) ==
    [n \in (DOMAIN specs) \cup {name} |->
        IF n = name
        THEN [h |-> data.H, pattern |-> pattern, orig_l |-> data.L, orig_w |-> data.W]
        ELSE specs[n]]

\* for name, data in input_data_dict.items(): ... from row i on, with the
\* accumulators all_layers_queue and item_specs.
RECURSIVE BuildQueue(_, _, _, _, _, _)
BuildQueue(dict, i, queue, specs, pw, pd) ==
    IF i > Len(dict) THEN [queue |-> queue, specs |-> specs]
    ELSE LET data == dict[i]
             pattern == get_best_layer_pattern(pw, pd, data.L, data.W)
             total_qty == data.QTY
             per_layer == pattern.count
         IN  IF SkipItem(total_qty, per_layer)
             THEN BuildQueue(dict, i + 1, queue, specs, pw, pd)
             ELSE BuildQueue(dict, i + 1,
                             queue \o ItemLayers(data.name, total_qty, per_layer),
                             PutSpec(specs, data.name, data, pattern), pw, pd)

----------------------------------------------------------------------------
(* calculate_pallet_plan, second loop: greedy bin-fitting *)

FitsCurrent_ignores_layer(current_h, h, limit) ==
    current_h <= limit

FitsCurrent_strict(current_h, h, limit) ==
    current_h + h < limit

\* if current_pallet['current_h'] + h <= limit_h
FitsCurrent(current_h, h, limit) ==
    current_h + h <= limit

AppendLayer_bottom(current, layer, h) ==
    [layers |-> <<layer>> \o current.layers, current_h |-> current.current_h + h]

\* current_pallet['layers'].append(layer); current_pallet['current_h'] += h
AppendLayer(current, layer, h) ==
    [layers |-> Append(current.layers, layer), current_h |-> current.current_h + h]

\* current_pallet = {'layers': [layer], 'current_h': pallet_h + h}
NewPallet(layer, base, h) ==
    [layers |-> <<layer>>, current_h |-> base + h]

Finalize_always(done, current) ==
    Append(done, current)

\* if current_pallet['layers']: pallets.append(current_pallet)
Finalize(done, current) ==
    IF current.layers # <<>> THEN Append(done, current) ELSE done

\* for layer in all_layers_queue: ... from position k on, then the final push.
RECURSIVE FitLayers(_, _, _, _, _, _, _)
FitLayers(queue, k, done, current, specs, limit, base) ==
    IF k > Len(queue) THEN Finalize(done, current)
    ELSE LET layer == queue[k]
             h == specs[layer.name].h
         IN  IF FitsCurrent(current.current_h, h, limit)
             THEN FitLayers(queue, k + 1, done, AppendLayer(current, layer, h),
                            specs, limit, base)
             ELSE FitLayers(queue, k + 1, Append(done, current), NewPallet(layer, base, h),
                            specs, limit, base)

----------------------------------------------------------------------------
(* Specification of calculate_pallet_plan *)

EmptySpecs == [n \in {} |-> 0]

NoPattern == [count |-> 0, cols |-> 0, rows |-> 0,
              box_w_view |-> 0, box_d_view |-> 0, rotated |-> FALSE]

Init ==
    /\ \E fp \in PalletFootprints : PALLET_W = fp[1] /\ PALLET_D = fp[2]
    /\ \E n \in 0..MaxItems : input_data_dict \in Dicts(n)
    /\ limit_h \in 1..MaxLimit
    /\ pallet_h \in BaseHeights
    /\ pc = "call"
    /\ outcome = "none"
    /\ all_layers_queue = <<>>
    /\ pallets = <<>>
    /\ item_specs = EmptySpecs
    /\ pat_pc = "idle"
    /\ pat_args = <<1, 1, 1, 1>>
    /\ pat_result = NoPattern

\* One call of calculate_pallet_plan(input_data_dict, limit_h, pallet_h).
\* The function has no raise statement: it always returns.
calculate_pallet_plan ==
    /\ pc = "call"
    /\ LET built == BuildQueue(input_data_dict, 1, <<>>, EmptySpecs, PALLET_W, PALLET_D)
           first == [layers |-> <<>>, current_h |-> pallet_h]
       IN  /\ all_layers_queue' = built.queue
           /\ item_specs' = built.specs
           /\ pallets' = FitLayers(built.queue, 1, <<>>, first, built.specs, limit_h, pallet_h)
    /\ outcome' = "returned"
    /\ pc' = "done"
    /\ UNCHANGED <<PALLET_W, PALLET_D, input_data_dict, limit_h, pallet_h,
                   pat_pc, pat_args, pat_result>>

Next == calculate_pallet_plan

Spec == Init /\ [][Next]_vars

----------------------------------------------------------------------------
(* Specification of get_best_layer_pattern *)

InitPattern ==
    /\ PALLET_W = 1 /\ PALLET_D = 1
    /\ input_data_dict = <<>>
    /\ limit_h = 1 /\ pallet_h = 1
    /\ pc = "idle"
    /\ outcome = "none"
    /\ all_layers_queue = <<>>
    /\ pallets = <<>>
    /\ item_specs = EmptySpecs
    /\ pat_pc = "call"
    /\ pat_args \in PatDims \X PatDims \X PatDims \X PatDims
    /\ pat_result = NoPattern

CallPattern ==
    /\ pat_pc = "call"
    /\ pat_result' = get_best_layer_pattern(pat_args[1], pat_args[2], pat_args[3], pat_args[4])
    /\ pat_pc' = "done"
    /\ UNCHANGED <<PALLET_W, PALLET_D, input_data_dict, limit_h, pallet_h, pc, outcome,
                   all_layers_queue, pallets, item_specs, pat_args>>

NextPattern == CallPattern

SpecPattern == InitPattern /\ [][NextPattern]_vars

----------------------------------------------------------------------------
(* Vocabulary of the properties *)

Done == pc = "done"

Max(a, b) == IF a >= b THEN a ELSE b

RowIndex(name) == CHOOSE i \in 1..Len(input_data_dict) : input_data_dict[i].name = name

\* Height of the item a layer belongs to, read from the input row.
LayerH(layer) == input_data_dict[RowIndex(layer.name)].H

\* Boxes per layer of an input row on the configured pallet footprint.
PerLayer(row) == get_best_layer_pattern(PALLET_W, PALLET_D, row.L, row.W).count

\* Base height plus the heights of the first n layers of a pallet.
HeightUpTo(p, n) == pallet_h + SumSeq([k \in 1..n |-> LayerH(p.layers[k])])

PalletTotal(p) == HeightUpTo(p, Len(p.layers))

\* Boxes of item 'name' carried by a sequence of layers.
BoxesOf(layers, name) ==
    SumSeq([k \in 1..Len(layers) |-> IF layers[k].name = name THEN layers[k].count ELSE 0])

LayersOfItem(layers, name) ==
    LET IsOfItem(l) == l.name = name IN SelectSeq(layers, IsOfItem)

PalletLayers == Flatten([i \in 1..Len(pallets) |-> pallets[i].layers])

Excluded(row) == row.QTY <= 0 \/ PerLayer(row) = 0

InputRows == {input_data_dict[i] : i \in 1..Len(input_data_dict)}

----------------------------------------------------------------------------
(* Properties of calculate_pallet_plan *)

\* C1: with limit_h > pallet_h, every returned pallet has total height (base
\* plus its layers' item heights) <= limit_h, unless it holds exactly one
\* layer whose item height alone exceeds limit_h - pallet_h; so a pallet over
\* the limit never holds more than one layer.
C1_HeightLimit ==
    (Done /\ limit_h > pallet_h) =>
        \A i \in 1..Len(pallets) :
            \/ PalletTotal(pallets[i]) <= limit_h
            \/ /\ Len(pallets[i].layers) = 1
               /\ LayerH(pallets[i].layers[1]) > limit_h - pallet_h

C1_Witness ==
    /\ Done /\ limit_h > pallet_h
    /\ \E i \in 1..Len(pallets) :
          PalletTotal(pallets[i]) > limit_h /\ Len(pallets[i].layers) = 1
    /\ \E i \in 1..Len(pallets) :
          PalletTotal(pallets[i]) <= limit_h /\ Len(pallets[i].layers) >= 2

\* C2: for every input item with quantity > 0 and boxes-per-layer > 0, the
\* counts of its layers sum to its quantity, in the layer queue and over all
\* returned pallets alike.
C2_Conservation ==
    Done =>
        \A row \in InputRows :
            ~Excluded(row) =>
                /\ BoxesOf(all_layers_queue, row.name) = row.QTY
                /\ SumSeq([i \in 1..Len(pallets) |->
                              BoxesOf(pallets[i].layers, row.name)]) = row.QTY

C2_Witness ==
    /\ Done
    /\ Len(pallets) >= 2
    /\ \E row \in InputRows :
          /\ ~Excluded(row)
          /\ row.QTY > PerLayer(row)
          /\ row.QTY % PerLayer(row) > 0
          /\ \E i, j \in 1..Len(pallets) :
                /\ i # j
                /\ BoxesOf(pallets[i].layers, row.name) > 0
                /\ BoxesOf(pallets[j].layers, row.name) > 0

\* C3: the pallets' layer sequences, concatenated in output order, are the
\* layer queue; and the queue lists the items in input order, each item's
\* layers contiguous, full layers before the item's remainder layer.
C3_OrderPreserved ==
    Done =>
        /\ PalletLayers = all_layers_queue
        /\ \A j, k \in 1..Len(all_layers_queue) :
              j < k =>
                  /\ RowIndex(all_layers_queue[j].name) <= RowIndex(all_layers_queue[k].name)
                  /\ (all_layers_queue[j].name = all_layers_queue[k].name
                        => all_layers_queue[j].type = "full")

C3_Witness ==
    /\ Done
    /\ Len(pallets) >= 2
    /\ \E i \in 1..Len(pallets) :
          \E k \in 1..(Len(pallets[i].layers) - 1) :
              pallets[i].layers[k] # pallets[i].layers[k + 1]
    /\ \E j, k \in 1..Len(all_layers_queue) :
          all_layers_queue[j].name # all_layers_queue[k].name

\* C5: called with limit_h <= pallet_h, calculate_pallet_plan fails fast with
\* a ConfigurationError and returns no pallets.
C5_FailFast ==
    (Done /\ limit_h <= pallet_h) =>
        (outcome = "ConfigurationError" /\ pallets = <<>>)

\* C6: an input item with quantity <= 0 or boxes-per-layer = 0 is the item of
\* no layer of any returned pallet and no key of the returned metadata; and
\* every item named by a layer of a returned pallet is a key of the metadata.
C6_Excluded ==
    Done =>
        /\ \A row \in InputRows :
              Excluded(row) =>
                  /\ row.name \notin DOMAIN item_specs
                  /\ \A k \in 1..Len(PalletLayers) : PalletLayers[k].name # row.name
        /\ \A k \in 1..Len(PalletLayers) : PalletLayers[k].name \in DOMAIN item_specs

C6_Witness ==
    /\ Done
    /\ \E row \in InputRows : row.QTY = 0 /\ PerLayer(row) > 0
    /\ \E row \in InputRows : ~Excluded(row)
    /\ pallets # <<>>

\* C7: the call returns without error; it returns at least one pallet when
\* the layer queue is non-empty and no pallet when the queue is empty.
C7_PalletCount ==
    Done =>
        /\ outcome = "returned"
        /\ (all_layers_queue # <<>> => Len(pallets) >= 1)
        /\ (all_layers_queue = <<>> => Len(pallets) = 0)

C7_Witness ==
    /\ Done
    /\ input_data_dict # <<>>
    /\ all_layers_queue = <<>>
    /\ pallets = <<>>
    /\ outcome = "returned"

\* C8: for two consecutive returned pallets, the earlier one's total height
\* plus the item height of the later one's first layer is > limit_h; and for
\* every layer that is not the first on its pallet, the pallet's height just
\* before adding it plus its item height is <= limit_h.
C8_SplitExactly ==
    Done =>
        /\ \A i \in 1..(Len(pallets) - 1) :
              PalletTotal(pallets[i]) + LayerH(pallets[i + 1].layers[1]) > limit_h
        /\ \A i \in 1..Len(pallets) :
              \A k \in 2..Len(pallets[i].layers) :
                  HeightUpTo(pallets[i], k - 1) + LayerH(pallets[i].layers[k]) <= limit_h

C8_Witness ==
    /\ Done
    /\ Len(pallets) >= 2
    /\ Len(pallets[1].layers) >= 2
    /\ PalletTotal(pallets[1]) = limit_h

\* C9: for every item with quantity Q > 0 and boxes-per-layer P > 0 the queue
\* holds floor(Q/P) 'full' layers of count P followed by one 'rem' layer of
\* count Q mod P when Q mod P > 0, and no 'rem' layer otherwise; every queued
\* layer has count > 0 and every 'rem' layer has 0 < count < P.
C9_QueueShape ==
    Done =>
        /\ \A row \in InputRows :
              ~Excluded(row) =>
                  LET P == PerLayer(row)
                      Q == row.QTY
                      mine == LayersOfItem(all_layers_queue, row.name)
                      nfull == Q \div P
                  IN  /\ Len(mine) = nfull + (IF Q % P > 0 THEN 1 ELSE 0)
                      /\ \A k \in 1..nfull :
                            mine[k] = [name |-> row.name, type |-> "full", count |-> P]
                      /\ Q % P > 0 =>
                            mine[nfull + 1] = [name |-> row.name, type |-> "rem", count |-> Q % P]
        /\ \A k \in 1..Len(all_layers_queue) :
              /\ all_layers_queue[k].count > 0
              /\ all_layers_queue[k].type = "rem" =>
                    all_layers_queue[k].count <
                        PerLayer(input_data_dict[RowIndex(all_layers_queue[k].name)])

C9_Witness ==
    /\ Done
    /\ \E row \in InputRows :
          /\ ~Excluded(row)
          /\ row.QTY \div PerLayer(row) >= 1
          /\ row.QTY % PerLayer(row) > 0
          /\ Len(LayersOfItem(all_layers_queue, row.name)) = 2
    /\ \E row \in InputRows :
          ~Excluded(row) /\ row.QTY % PerLayer(row) = 0

\* C10: with limit_h > pallet_h, every returned pallet holds at least one
\* layer, also when the first queued layer's item height exceeds
\* limit_h - pallet_h.
C10_NoEmptyPallet ==
    (Done /\ limit_h > pallet_h) =>
        \A i \in 1..Len(pallets) : pallets[i].layers # <<>>

----------------------------------------------------------------------------
(* Properties of get_best_layer_pattern *)

\* C4: the returned count is cols * rows, where (cols, rows) is the unrotated
\* tiling when its product is >= the rotated tiling's product and the rotated
\* tiling otherwise; count is the maximum of the two products, rotated is
\* false on ties, and the placed box width/depth are swapped exactly when
\* rotated is true.
C4_BestPattern ==
    pat_pc = "done" =>
        LET p_w == pat_args[1]
            p_d == pat_args[2]
            b_l == pat_args[3]
            b_w == pat_args[4]
            unrot == (p_w \div b_l) * (p_d \div b_w)
            rot == (p_w \div b_w) * (p_d \div b_l)
            r == pat_result
        IN  /\ r.count = r.cols * r.rows
            /\ r.count = Max(unrot, rot)
            /\ r.rotated = (unrot < rot)
            /\ ~r.rotated => (r.cols = p_w \div b_l /\ r.rows = p_d \div b_w
                              /\ r.box_w_view = b_l /\ r.box_d_view = b_w)
            /\ r.rotated => (r.cols = p_w \div b_w /\ r.rows = p_d \div b_l
                             /\ r.box_w_view = b_w /\ r.box_d_view = b_l)

C4_Witness ==
    /\ pat_pc = "done"
    /\ pat_args = <<1100, 1100, 336, 336>>
    /\ pat_result = [count |-> 9, cols |-> 3, rows |-> 3,
                     box_w_view |-> 336, box_d_view |-> 336, rotated |-> FALSE]

=============================================================================
